---- MODULE Spec2Model ----
(***************************************************************************)
(* A model of paramspy: the SQLite parameter cache (paramspy/core/cache.py), *)
(* the Wayback CDX fetch (core/fetcher.py), the retry decorator             *)
(* (utils/decorators.py) and the scan command (paramspy/cli.py).            *)
(*                                                                         *)
(* Text is modelled as a sequence of one-character strings, so that         *)
(* str.endswith, urlparse and the JSON encoding are computed, not assumed;  *)
(* names are shortened (ex.c for example.com, h:// for http://).            *)
(* The methods the source spells _init_, _del_ are read as the constructor  *)
(* and the finalizer of ParamCache: Init is the state after construction.   *)
(***************************************************************************)
EXTENDS Integers, Sequences, FiniteSets, TLC

(***************************************************************************)
(* Bounds of the model.                                                    *)
(***************************************************************************)
\* Clock ticks per second: time.time() is a float, int(time.time()) drops the
\* fraction of a second.
Resolution == 2
\* The cache's time to live in the model's seconds.  The code's value is
\* 30 * 24 * 60 * 60 seconds; the model scales it down so that a clock that
\* counts every tick reaches both sides of the expiry boundary.
TTLScaled == 2

CACHE_TTL == TTLScaled
\* The clock stops one second after an entry written in second 1 has expired.
MaxNow == (CACHE_TTL + 2) * Resolution

(***************************************************************************)
(* Text.                                                                   *)
(***************************************************************************)
\* str.endswith(suffix)
EndsWith(s, suffix) ==
    /\ Len(suffix) <= Len(s)
    /\ SubSeq(s, Len(s) - Len(suffix) + 1, Len(s)) = suffix

\* The optional value of Python: None, or a value.
None == [some |-> FALSE, val |-> <<>>]
Some(v) == [some |-> TRUE, val |-> v]

(***************************************************************************)
(* json.dumps and json.loads on a list of strings.                         *)
(***************************************************************************)
RECURSIVE EscapeStr(_)
\* The JSON encoder escapes the quote and the backslash inside a string.
EscapeStr(s) ==
    IF s = <<>> THEN <<>>
    ELSE (IF Head(s) \in {"\"", "\\"} THEN <<"\\", Head(s)>> ELSE <<Head(s)>>)
         \o EscapeStr(Tail(s))

EncodeStr(s) == <<"\"">> \o EscapeStr(s) \o <<"\"">>

RECURSIVE JoinItems(_)
\* The default item separator of json.dumps is ", ".
JoinItems(l) ==
    IF l = <<>> THEN <<>>
    ELSE IF Len(l) = 1 THEN EncodeStr(l[1])
    ELSE EncodeStr(l[1]) \o <<",", " ">> \o JoinItems(Tail(l))

json_dumps(l) == <<"[">> \o JoinItems(l) \o <<"]">>

RECURSIVE ScanString(_, _, _)
\* Reads a JSON string of text t from position i, just after its opening
\* quote: the decoded string and the position after its closing quote.
ScanString(t, i, acc) ==
    IF t[i] = "\"" THEN [val |-> acc, next |-> i + 1]
    ELSE IF t[i] = "\\" THEN ScanString(t, i + 2, Append(acc, t[i + 1]))
    ELSE ScanString(t, i + 1, Append(acc, t[i]))

RECURSIVE ParseItems(_, _, _)
\* Reads the items of a JSON array of strings from position i.
ParseItems(t, i, acc) ==
    IF t[i] = "]" THEN acc
    ELSE IF t[i] \in {",", " "} THEN ParseItems(t, i + 1, acc)
    ELSE LET r == ScanString(t, i + 1, <<>>)
         IN ParseItems(t, r.next, Append(acc, r.val))

json_loads(t) == ParseItems(t, 2, <<>>)

(***************************************************************************)
(* The inputs of the cache: domains and parameter lists.                   *)
(***************************************************************************)
ex_com == <<"e", "x", ".", "c">>
notex_com == <<"n", "e", "x", ".", "c">>

Domains == {ex_com, notex_com}

\* Parameter names, among them names that hold the characters JSON escapes
\* and the item separator.
NameX == <<"x">>
NameQuote == <<"a", "\"", ",", " ">>
NameBackslash == <<"\\", "\"">>

ParamLists == { <<>>, <<NameX>>, <<NameBackslash, NameQuote>> }

VARIABLES
    store,    \* the rows of table params: the committed content of the database
    now,      \* the clock, in ticks
    last,     \* the last cache operation: what it was given and what it returned
    written,  \* per domain, the call of set whose row the table holds (history)
    fetch,    \* the last call of fetch_wayback_urls
    retry,    \* the call in progress through retry_on_failure
    conc,     \* the callers that share the database file
    cli,      \* the command in progress
    merge     \* the last call of merge_and_filter_all_params

vars == <<store, now, last, written, fetch, retry, conc, cli, merge>>

(***************************************************************************)
(* time                                                                    *)
(***************************************************************************)
\* time.time(), in ticks
time_time(t) == t
\* int(time.time()), in seconds
int_time(t) == t \div Resolution

(***************************************************************************)
(* ParamCache: the SQL statements, on the rows of table params.            *)
(***************************************************************************)
\* INSERT OR REPLACE INTO params without the primary key: the new row is
\* added and a row of the same domain stays.
InsertPlain(rows, row) == rows \cup {row}

\* INSERT OR REPLACE INTO params ...: domain is the PRIMARY KEY, so the row of
\* the same domain, if any, is removed as the new one is inserted.
InsertOrReplace(rows, row) ==
    {r \in rows : r.domain /= row.domain} \cup {row}

\* The rows of a domain
RowsOf(rows, d) == {r \in rows : r.domain = d}

\* SELECT params_json, timestamp FROM params WHERE domain = ?; fetchone()
SelectOne(rows, d) ==
    IF \E r \in rows : r.domain = d
    THEN Some(CHOOSE r \in rows : r.domain = d)
    ELSE None

\* DELETE FROM params: a delete that forgot its WHERE clause
DeleteEvery(rows, d) == {}

\* DELETE FROM params WHERE domain = ?
DeleteWhere(rows, d) == {r \in rows : r.domain /= d}

\* The row that set writes, with a timestamp that is not refreshed when the
\* domain already has a row.
StaleRow(rows, d, params, t) ==
    [domain |-> d, params_json |-> json_dumps(params),
     timestamp |-> IF \E r \in rows : r.domain = d
                   THEN (CHOOSE r \in rows : r.domain = d).timestamp
                   ELSE int_time(t)]

\* The row that set writes: params_json = json.dumps(params),
\* timestamp = int(time.time()).
SetRow(rows, d, params, t) ==
    [domain |-> d, params_json |-> json_dumps(params), timestamp |-> int_time(t)]

\* time.time() - timestamp < CACHE_TTL, with the expiry boundary included
FreshInclusive(timestamp, t) ==
    time_time(t) - timestamp * Resolution <= CACHE_TTL * Resolution

\* time.time() - timestamp < CACHE_TTL
Fresh(timestamp, t) ==
    time_time(t) - timestamp * Resolution < CACHE_TTL * Resolution

\* A helper that reports "Expired" only after the instant of expiry
TimeRemainingAfter(timestamp, t) ==
    LET remaining == (timestamp + CACHE_TTL) * Resolution - time_time(t)
    IN IF remaining < 0 THEN [expired |-> TRUE, remaining |-> 0]
       ELSE [expired |-> FALSE, remaining |-> remaining]

\* ParamCache._time_remaining: "Expired", or the time that remains (the code
\* formats it in days and hours).
TimeRemaining(timestamp, t) ==
    LET remaining == (timestamp + CACHE_TTL) * Resolution - time_time(t)
    IN IF remaining <= 0 THEN [expired |-> TRUE, remaining |-> 0]
       ELSE [expired |-> FALSE, remaining |-> remaining]

\* ParamCache.get: what it returns
GetValue(rows, d, t) ==
    LET row == SelectOne(rows, d)
    IN IF row.some /\ Fresh(row.val.timestamp, t)
       THEN Some(json_loads(row.val.params_json))
       ELSE None

\* ParamCache.get: the rows it leaves (an expired row is deleted)
GetRows(rows, d, t) ==
    LET row == SelectOne(rows, d)
    IN IF row.some /\ ~Fresh(row.val.timestamp, t)
       THEN DeleteWhere(rows, d)
       ELSE rows

\* ParamCache.set: the rows it leaves
SetRows(rows, d, params, t) == InsertOrReplace(rows, SetRow(rows, d, params, t))

\* ParamCache.clear_all that removes only the expired rows
ClearExpiredRows(rows, t) == {r \in rows : Fresh(r.timestamp, t)}

\* ParamCache.clear_all: DELETE FROM params
ClearAllRows(rows, t) == {}

\* ParamCache.clear_all: SELECT COUNT(*) FROM params
CountRows(rows) == Cardinality(rows)

\* ParamCache.get_status: one item per row
StatusItem(r, t) ==
    [domain |-> r.domain, cached_since |-> r.timestamp,
     expires_in |-> TimeRemaining(r.timestamp, t)]

\* The lists that hold every element of set S once
Orderings(S) ==
    {q \in [1..Cardinality(S) -> S] : \A i, j \in 1..Cardinality(S) : i /= j => q[i] /= q[j]}

\* ParamCache.get_status: the lists it may return.  SELECT domain, timestamp
\* FROM params names no order, so the items come in any order.
StatusLists(rows, t) ==
    {[i \in 1..Len(q) |-> StatusItem(q[i], t)] : q \in Orderings(rows)}

(***************************************************************************)
(* ParamCache, called by one process: every method runs to its end.        *)
(***************************************************************************)
NoWrite == [some |-> FALSE, params |-> <<>>, at |-> 0]

NoCall ==
    [seq |-> 0, op |-> "none", domain |-> <<>>, params |-> <<>>, result |-> None,
     count |-> 0, had |-> FALSE, status |-> <<>>, raised |-> FALSE]

Call(op, d, params, result, count, status) ==
    [seq |-> 1 - last.seq, op |-> op, domain |-> d, params |-> params,
     result |-> result, count |-> count,
     had |-> \E r \in store : r.domain = d, status |-> status, raised |-> FALSE]

\* The history of the rows: the call of set that wrote each row now in rows.
Written(rows, d, params, t) ==
    [e \in Domains |->
        IF ~\E r \in rows : r.domain = e THEN NoWrite
        ELSE IF e = d THEN [some |-> TRUE, params |-> params, at |-> t]
        ELSE written[e]]

Forgotten(rows) ==
    [e \in Domains |-> IF \E r \in rows : r.domain = e THEN written[e] ELSE NoWrite]

OtherUnchanged == UNCHANGED <<fetch, retry, conc, cli, merge>>

\* The clock advances.
Tick ==
    /\ now < MaxNow
    /\ now' = now + 1
    /\ UNCHANGED <<store, last, written>>
    /\ OtherUnchanged

\* param_cache.set(d, params)
Set(d, params) ==
    /\ store' = SetRows(store, d, params, now)
    /\ last' = Call("set", d, params, None, 0, <<>>)
    /\ written' = Written(store', d, params, now)
    /\ UNCHANGED now
    /\ OtherUnchanged

\* param_cache.get(d)
Get(d) ==
    /\ store' = GetRows(store, d, now)
    /\ last' = Call("get", d, <<>>, GetValue(store, d, now), 0, <<>>)
    /\ written' = Forgotten(store')
    /\ UNCHANGED now
    /\ OtherUnchanged

\* param_cache.delete(d)
Delete(d) ==
    /\ store' = DeleteWhere(store, d)
    /\ last' = Call("delete", d, <<>>, None, 0, <<>>)
    /\ written' = Forgotten(store')
    /\ UNCHANGED now
    /\ OtherUnchanged

\* param_cache.clear_all()
ClearAll ==
    /\ store' = ClearAllRows(store, now)
    /\ last' = Call("clear_all", <<>>, <<>>, None, CountRows(store), <<>>)
    /\ written' = Forgotten(store')
    /\ UNCHANGED now
    /\ OtherUnchanged

\* param_cache.get_status()
GetStatus ==
    /\ \E status \in StatusLists(store, now) :
          last' = Call("get_status", <<>>, <<>>, None, 0, status)
    /\ UNCHANGED <<store, now, written>>
    /\ OtherUnchanged

Idle == [pc |-> "idle"]

Init ==
    /\ store = {}
    /\ now = 0
    /\ last = NoCall
    /\ written = [e \in Domains |-> NoWrite]
    /\ fetch = Idle
    /\ retry = Idle
    /\ conc = Idle
    /\ cli = Idle
    /\ merge = Idle

Next ==
    \/ Tick
    \/ \E d \in Domains, params \in ParamLists : Set(d, params)
    \/ \E d \in Domains : Get(d)
    \/ \E d \in Domains : Delete(d)
    \/ ClearAll
    \/ GetStatus

Spec == Init /\ [][Next]_vars

(***************************************************************************)
(* fetch_wayback_urls: the URLs of the archive's response.                 *)
(***************************************************************************)
\* The number of data rows of a response, at most
MaxRows == 3

\* The position of the first character of s at or after i that is in set cs,
\* or Len(s) + 1
RECURSIVE FindFirst(_, _, _)
FindFirst(s, i, cs) ==
    IF i > Len(s) THEN Len(s) + 1
    ELSE IF s[i] \in cs THEN i
    ELSE FindFirst(s, i + 1, cs)

SchemeChars == {"h"}

\* urlparse(url): the URL after its scheme, "letters:", if it has one
AfterScheme(url) ==
    LET colon == FindFirst(url, 1, {":"})
    IN IF /\ colon <= Len(url)
          /\ colon > 1
          /\ \A i \in 1..(colon - 1) : url[i] \in SchemeChars
       THEN SubSeq(url, colon + 1, Len(url))
       ELSE url

\* urlparse(url).netloc: what follows "//", up to the next "/", "?" or "#"
Netloc(url) ==
    LET rest == AfterScheme(url)
    IN IF Len(rest) >= 2 /\ rest[1] = "/" /\ rest[2] = "/"
       THEN SubSeq(rest, 3, FindFirst(rest, 3, {"/", "?", "#"}) - 1)
       ELSE <<>>

\* The position of the last "@" of s, or 0
RECURSIVE LastAt(_, _)
LastAt(s, i) ==
    IF i = 0 THEN 0 ELSE IF s[i] = "@" THEN i ELSE LastAt(s, i - 1)

\* The host of a URL: its netloc without the user information and the port
Hostname(url) ==
    LET n == Netloc(url)
        h == SubSeq(n, LastAt(n, Len(n)) + 1, Len(n))
    IN SubSeq(h, 1, FindFirst(h, 1, {":"}) - 1)

\* "http://": a scheme is written as one letter, "h" for http
HttpPrefix == <<"h", ":", "/", "/">>

\* The URLs a response row may hold
UrlSamples ==
    { HttpPrefix \o ex_com \o <<"/", "a", "?", "x", "=", "1">>,
      HttpPrefix \o <<"n", ".">> \o ex_com \o <<"/", "?", "y", "=", "2">>,
      HttpPrefix \o notex_com \o <<"/", "c", "?", "z", "=", "3">>,
      HttpPrefix \o <<"c", ".", "x">> \o <<"/">>,
      HttpPrefix \o ex_com \o <<"/">>,
      HttpPrefix \o ex_com \o <<":", "8", "/">>,
      HttpPrefix \o <<"u", "@">> \o ex_com \o <<"/", "?", "x", "=", "2">>,
      ex_com \o <<"/", "a">> }

\* A JSON value of a row: a string, or a value that is no string
Str(text) == [str |-> TRUE, text |-> text]
NonStr == [str |-> FALSE, text |-> <<>>]

\* The rows of a response: one URL each, as the query asks, or malformed (an
\* empty array, an element that is no string)
RowSamples == {<<Str(u)>> : u \in UrlSamples} \cup {<<>>, <<NonStr>>}

HeaderRow == <<Str(<<"o">>)>>

RowLists == UNION {[1..n -> RowSamples] : n \in 0..MaxRows}

\* What client.get, raise_for_status and response.json() come to: an
\* exception, or the decoded JSON array
Responses ==
    {[kind |-> k, data |-> <<>>] :
        k \in {"ConnectError", "HTTPStatusError", "ReadTimeout", "JSONDecodeError"}}
    \cup {[kind |-> "ok", data |-> <<>>]}
    \cup {[kind |-> "ok", data |-> <<HeaderRow>> \o rows] : rows \in RowLists}

\* parsed_url.netloc.endswith(domain) or parsed_url.netloc == domain
BelongsTo(netloc, domain) ==
    EndsWith(netloc, domain) \/ netloc = domain

\* The loop over data[1:]: the set urls when the loop ends, and whether an
\* exception ended it (row[0] of an empty row, urlparse of a non-string)
RECURSIVE ProcessRows(_, _, _)
ProcessRows(rows, domain, urls) ==
    IF rows = <<>> THEN [urls |-> urls, failed |-> FALSE]
    ELSE LET row == Head(rows)
         IN IF row = <<>> \/ ~row[1].str
            THEN [urls |-> urls, failed |-> TRUE]
            ELSE ProcessRows(Tail(rows), domain,
                    IF BelongsTo(Netloc(row[1].text), domain)
                    THEN urls \cup {row[1].text}
                    ELSE urls)

\* fetch_wayback_urls(domain): every except clause prints and falls through
\* to "return urls", so nothing is raised to the caller
FetchResult(domain, resp) ==
    IF resp.kind /= "ok"
    THEN [urls |-> {}, failed |-> TRUE, raised |-> FALSE]
    ELSE IF Len(resp.data) <= 1
    THEN [urls |-> {}, failed |-> FALSE, raised |-> FALSE]
    ELSE LET r == ProcessRows(Tail(resp.data), domain, {})
         IN [urls |-> r.urls, failed |-> r.failed, raised |-> FALSE]

\* asyncio.run(fetch_wayback_urls(domain)): one call, from the state before it
Fetch(domain, resp) ==
    /\ fetch.pc = "idle"
    /\ LET r == FetchResult(domain, resp)
       IN fetch' = [pc |-> "done", domain |-> domain, response |-> resp,
                    urls |-> r.urls, failed |-> r.failed, raised |-> r.raised]
    /\ UNCHANGED <<store, now, last, written, retry, conc, cli, merge>>

FetchNext == \E domain \in Domains, resp \in Responses : Fetch(domain, resp)

SpecFetch == Init /\ [][FetchNext]_vars

\* C1: every URL that fetch_wayback_urls(D) returns has a host equal to D or
\* ending with "." followed by D.
C1_HostContainment ==
    fetch.pc = "done" =>
        \A u \in fetch.urls :
            \/ Hostname(u) = fetch.domain
            \/ EndsWith(Hostname(u), <<".">> \o fetch.domain)

\* C4: when the fetch fails (the request, the status, the decoding, or the
\* processing of a row), nothing is raised to the caller and the set returned
\* is empty.
C4_FailureGivesEmptySet ==
    (fetch.pc = "done" /\ fetch.failed) => (~fetch.raised /\ fetch.urls = {})

(***************************************************************************)
(* retry_on_failure: the wrapper around an awaited network operation.      *)
(***************************************************************************)
\* The largest max_retries the model gives the decorator
MaxRetries == 3

\* The classes of the failures the wrapped operation raises, each with the
\* classes it inherits from.  A request of httpx that times out raises
\* httpx.ReadTimeout or httpx.ConnectTimeout, which descend from
\* httpx.TimeoutException; the builtin TimeoutError is another class.
Superclasses(kind) ==
    CASE kind = "httpx.ConnectError" ->
            {"httpx.ConnectError", "httpx.NetworkError", "httpx.TransportError",
             "httpx.RequestError", "httpx.HTTPError", "Exception"}
      [] kind = "httpx.HTTPStatusError" ->
            {"httpx.HTTPStatusError", "httpx.HTTPError", "Exception"}
      [] kind = "httpx.ReadTimeout" ->
            {"httpx.ReadTimeout", "httpx.TimeoutException", "httpx.TransportError",
             "httpx.RequestError", "httpx.HTTPError", "Exception"}
      [] kind = "httpx.ConnectTimeout" ->
            {"httpx.ConnectTimeout", "httpx.TimeoutException", "httpx.TransportError",
             "httpx.RequestError", "httpx.HTTPError", "Exception"}
      [] kind = "TimeoutError" -> {"TimeoutError", "OSError", "Exception"}
      [] kind = "ValueError" -> {"ValueError", "Exception"}

FailureKinds ==
    {"httpx.ConnectError", "httpx.HTTPStatusError", "httpx.ReadTimeout",
     "httpx.ConnectTimeout", "TimeoutError", "ValueError"}

\* exceptions = (HTTPStatusError, ConnectError, TimeoutError), the names
\* imported from httpx and the builtin
DefaultExceptions == {"httpx.HTTPStatusError", "httpx.ConnectError", "TimeoutError"}

\* The values of the decorator's parameter exceptions
ExceptionTuples == {DefaultExceptions, {"ValueError"}}

\* except exceptions as e: the clause catches an instance of a listed class
Caught(kind, exceptions) == Superclasses(kind) \cap exceptions /= {}

\* The test of a loop that waits after every failure, the last one included
WaitsAgainAlways(attempt, max_retries) == attempt < max_retries

\* if attempt < max_retries - 1: wait and go round again; else: raise
WaitsAgain(attempt, max_retries) == attempt < max_retries - 1

\* What one await func(*args, **kwargs) comes to: a value, or a failure
Outcomes ==
    {[ok |-> TRUE, kind |-> "value"]}
    \cup {[ok |-> FALSE, kind |-> k] : k \in FailureKinds}

\* wrapper(*args, **kwargs) is called
RetryStart(max_retries, exceptions) ==
    /\ retry.pc = "idle"
    /\ retry' = [pc |-> "loop", max_retries |-> max_retries,
                 exceptions |-> exceptions, attempt |-> 0, outcomes |-> <<>>,
                 sleeps |-> 0, slept_after |-> {},
                 returned |-> None, raised |-> None]
    /\ UNCHANGED <<store, now, last, written, fetch, conc, cli, merge>>

\* One turn of "for attempt in range(max_retries)": the call, and what the
\* try statement does with its outcome
RetryAttempt(outcome) ==
    /\ retry.pc = "loop"
    /\ retry.attempt < retry.max_retries
    /\ LET n == Len(retry.outcomes) + 1
           called == [retry EXCEPT !.outcomes = Append(@, outcome)]
       IN retry' =
            IF outcome.ok
            THEN [called EXCEPT !.pc = "returned",
                                !.returned = Some([value_of |-> n])]
            ELSE IF ~Caught(outcome.kind, retry.exceptions)
            THEN [called EXCEPT !.pc = "raised",
                                !.raised = Some([kind |-> outcome.kind, failure_of |-> n])]
            ELSE IF WaitsAgain(retry.attempt, retry.max_retries)
            THEN [called EXCEPT !.sleeps = @ + 1,
                                !.slept_after = @ \cup {n},
                                !.attempt = @ + 1]
            ELSE [called EXCEPT !.pc = "raised",
                                !.raised = Some([kind |-> outcome.kind, failure_of |-> n])]
    /\ UNCHANGED <<store, now, last, written, fetch, conc, cli, merge>>

\* The loop ends without a return or a raise: "return None"
RetryFallsThrough ==
    /\ retry.pc = "loop"
    /\ retry.attempt >= retry.max_retries
    /\ retry' = [retry EXCEPT !.pc = "returned", !.returned = None]
    /\ UNCHANGED <<store, now, last, written, fetch, conc, cli, merge>>

RetryNext ==
    \/ \E max_retries \in 0..MaxRetries, exceptions \in ExceptionTuples :
          RetryStart(max_retries, exceptions)
    \/ \E outcome \in Outcomes : RetryAttempt(outcome)
    \/ RetryFallsThrough

SpecRetry == Init /\ [][RetryNext]_vars

RetryActive == retry.pc /= "idle"
RetryEnded == retry.pc \in {"returned", "raised"}

\* C6: with max_retries = N >= 1 the wrapped operation is invoked at most N
\* times; the first attempt that succeeds returns its value and no later
\* attempt is made; when all N attempts fail with failures the wrapper
\* retries, the failure of the N-th attempt is raised unchanged; a delay
\* occurs only between attempts (N - 1 delays, none after the last failure).
C6_BoundedAttempts ==
    (RetryActive /\ retry.max_retries >= 1) =>
        LET N == retry.max_retries
            calls == Len(retry.outcomes)
            retried(i) == /\ ~retry.outcomes[i].ok
                          /\ Caught(retry.outcomes[i].kind, retry.exceptions)
        IN /\ calls <= N
           /\ \A i \in 1..calls : retry.outcomes[i].ok =>
                 /\ i = calls
                 /\ retry.pc = "returned"
                 /\ retry.returned = Some([value_of |-> i])
           /\ (calls = N /\ \A i \in 1..N : retried(i)) =>
                 /\ retry.pc = "raised"
                 /\ retry.raised =
                       Some([kind |-> retry.outcomes[N].kind, failure_of |-> N])
                 /\ retry.sleeps = N - 1
           /\ retry.slept_after \subseteq 1..(N - 1)
           /\ RetryEnded => (calls >= 1 /\ retry.slept_after = 1..(calls - 1))
           /\ ~RetryEnded => (calls < N /\ retry.slept_after = 1..calls)
           /\ retry.sleeps = Cardinality(retry.slept_after)

\* Every attempt of three failed with a failure the wrapper retries: the
\* third failure is raised after two delays.
C6_Witness ==
    /\ RetryActive /\ retry.max_retries = 3 /\ retry.pc = "raised"
    /\ Len(retry.outcomes) = 3 /\ retry.sleeps = 2
    /\ retry.raised = Some([kind |-> "httpx.ConnectError", failure_of |-> 3])

\* The failures the claim calls transient: a connection failure, an HTTP
\* status failure, and a request of the wrapped network operation timing out
TransientKinds ==
    {"httpx.ConnectError", "httpx.HTTPStatusError", "httpx.ReadTimeout",
     "httpx.ConnectTimeout", "TimeoutError"}

\* C7: with the default configuration a failed attempt is retried exactly
\* when its failure is a connection failure, an HTTP status failure or a
\* request timeout of the wrapped network operation; any other failure is
\* raised on the attempt where it occurs, with no delay and no further call.
C7_RetriesTransientOnly ==
    (RetryActive /\ retry.exceptions = DefaultExceptions) =>
        \A i \in 1..Len(retry.outcomes) :
            ~retry.outcomes[i].ok =>
                IF retry.outcomes[i].kind \in TransientKinds
                THEN (i < retry.max_retries) => (i \in retry.slept_after)
                ELSE /\ i = Len(retry.outcomes)
                     /\ i \notin retry.slept_after
                     /\ retry.raised =
                           Some([kind |-> retry.outcomes[i].kind, failure_of |-> i])

(***************************************************************************)
(* ParamCache, called by several processes that share the database file.   *)
(* Each process has its own connection.  cursor.execute of an INSERT or a  *)
(* DELETE opens a transaction and takes the write lock of the file, or     *)
(* fails with "database is locked" when another connection holds it;       *)
(* conn.commit() publishes the statement's effect and releases the lock.   *)
(* Between the two no other connection writes, so the effect is computed   *)
(* on the table as committed.                                              *)
(***************************************************************************)
Callers == {"p1", "p2"}

\* The lists the concurrent callers store
ConcParamLists == { <<NameX>>, <<NameBackslash, NameQuote>> }

\* A caller: where it is in its method, the method's arguments, and the
\* timestamp set has taken, int(time.time())
IdleCaller ==
    [pc |-> "idle", op |-> "none", stmt |-> "none", domain |-> <<>>,
     params |-> <<>>, timestamp |-> 0]

\* The table after the statement of caller k is committed
ApplyStmt(rows, k) ==
    CASE k.stmt = "upsert" ->
            SetRows(rows, k.domain, k.params, k.timestamp * Resolution)
      [] k.stmt = "delete" -> DeleteWhere(rows, k.domain)
      [] k.stmt = "delete_all" -> ClearAllRows(rows, k.timestamp * Resolution)

ConcUnchanged == UNCHANGED <<last, written, fetch, retry, cli, merge>>

Enter(c, op, stmt, d, params) ==
    conc' = [conc EXCEPT !.callers[c] =
                [pc |-> "execute", op |-> op, stmt |-> stmt, domain |-> d,
                 params |-> params,
                 timestamp |-> IF op = "set" THEN int_time(now) ELSE 0]]

\* set: json.dumps(params) and int(time.time()) are taken, then the INSERT
\* OR REPLACE is executed
ConcCallSet(c, d, params) ==
    /\ conc.callers[c].pc = "idle"
    /\ Enter(c, "set", "upsert", d, params)
    /\ UNCHANGED <<store, now>>
    /\ ConcUnchanged

\* delete: the DELETE ... WHERE domain = ? is to be executed
ConcCallDelete(c, d) ==
    /\ conc.callers[c].pc = "idle"
    /\ Enter(c, "delete", "delete", d, <<>>)
    /\ UNCHANGED <<store, now>>
    /\ ConcUnchanged

\* clear_all: SELECT COUNT(*) is read, the DELETE FROM params is to be
\* executed
ConcCallClearAll(c) ==
    /\ conc.callers[c].pc = "idle"
    /\ Enter(c, "clear_all", "delete_all", <<>>, <<>>)
    /\ UNCHANGED <<store, now>>
    /\ ConcUnchanged

\* get: the SELECT reads the committed row; a fresh row or no row is
\* returned at once, an expired row leads to self.delete(domain)
ConcCallGet(c, d) ==
    /\ conc.callers[c].pc = "idle"
    /\ LET row == SelectOne(store, d)
       IN IF row.some /\ ~Fresh(row.val.timestamp, now)
          THEN Enter(c, "get", "delete", d, <<>>)
          ELSE UNCHANGED conc
    /\ UNCHANGED <<store, now>>
    /\ ConcUnchanged

\* cursor.execute(...) of the statement: the write lock is free and is taken
ConcExecute(c) ==
    /\ conc.callers[c].pc = "execute"
    /\ conc.lock = "free"
    /\ conc' = [conc EXCEPT !.callers[c].pc = "commit", !.lock = c]
    /\ UNCHANGED <<store, now>>
    /\ ConcUnchanged

\* cursor.execute(...) of the statement: another connection holds the write
\* lock for longer than the connection waits, sqlite3.OperationalError
ConcBusy(c) ==
    /\ conc.callers[c].pc = "execute"
    /\ conc.lock \notin {"free", c}
    /\ conc' = [conc EXCEPT !.callers[c] = IdleCaller]
    /\ UNCHANGED <<store, now>>
    /\ ConcUnchanged

\* self.conn.commit()
ConcCommit(c) ==
    /\ conc.callers[c].pc = "commit"
    /\ store' = ApplyStmt(store, conc.callers[c])
    /\ conc' = [conc EXCEPT !.callers[c] = IdleCaller, !.lock = "free"]
    /\ UNCHANGED now
    /\ ConcUnchanged

ConcTick ==
    /\ now < MaxNow
    /\ now' = now + 1
    /\ UNCHANGED <<store, conc>>
    /\ ConcUnchanged

InitConc ==
    /\ store = {}
    /\ now = 0
    /\ last = NoCall
    /\ written = [e \in Domains |-> NoWrite]
    /\ fetch = Idle
    /\ retry = Idle
    /\ conc = [callers |-> [c \in Callers |-> IdleCaller], lock |-> "free"]
    /\ cli = Idle
    /\ merge = Idle

ConcNext ==
    \/ ConcTick
    \/ \E c \in Callers, d \in Domains, params \in ConcParamLists : ConcCallSet(c, d, params)
    \/ \E c \in Callers, d \in Domains : ConcCallDelete(c, d)
    \/ \E c \in Callers : ConcCallClearAll(c)
    \/ \E c \in Callers, d \in Domains : ConcCallGet(c, d)
    \/ \E c \in Callers : ConcExecute(c)
    \/ \E c \in Callers : ConcBusy(c)
    \/ \E c \in Callers : ConcCommit(c)

SpecConc == InitConc /\ [][ConcNext]_vars

\* C8: under any interleaving of set, delete and clear_all by different
\* callers, a domain has at every point no entry or exactly one entry, and
\* every entry that appears holds the list and the timestamp of one single
\* call of set (the one that commits: the last writer wins).
C8_NoPartialRow ==
    [][/\ \A d \in Domains : Cardinality(RowsOf(store', d)) <= 1
       /\ \A r \in store' \ store :
             \E c \in Callers :
                /\ conc.callers[c].pc = "commit"
                /\ conc.callers[c].op = "set"
                /\ conc'.callers[c].pc = "idle"
                /\ r.domain = conc.callers[c].domain
                /\ json_loads(r.params_json) = conc.callers[c].params
                /\ r.timestamp = conc.callers[c].timestamp
      ]_vars

\* Two callers are inside set for the same domain, with different lists taken
\* in different seconds; one is about to commit, the other waits for the
\* lock, and the domain already has an entry.
C8_Witness ==
    /\ conc.callers["p1"].op = "set" /\ conc.callers["p1"].pc = "commit"
    /\ conc.callers["p2"].op = "set" /\ conc.callers["p2"].pc = "execute"
    /\ conc.callers["p1"].domain = conc.callers["p2"].domain
    /\ conc.callers["p1"].params /= conc.callers["p2"].params
    /\ conc.callers["p1"].timestamp < conc.callers["p2"].timestamp
    /\ RowsOf(store, conc.callers["p1"].domain) /= {}

(***************************************************************************)
(* The commands of cli.py: scan, cache status, cache clear.  One command   *)
(* runs at a time; the table persists from one command to the next.        *)
(***************************************************************************)
\* The number of data rows of the responses a scan is given, at most
ScanMaxRows == 2

\* str.lower(), on the letters of the model
LowerChar(c) ==
    CASE c = "E" -> "e" [] c = "X" -> "x" [] c = "C" -> "c" [] c = "H" -> "h"
      [] OTHER -> c

Lower(s) == [i \in 1..Len(s) |-> LowerChar(s[i])]

\* str.strip()
RECURSIVE StripLeft(_)
StripLeft(s) ==
    IF s /= <<>> /\ Head(s) = " " THEN StripLeft(Tail(s)) ELSE s

RECURSIVE StripRight(_)
StripRight(s) ==
    IF s /= <<>> /\ s[Len(s)] = " " THEN StripRight(SubSeq(s, 1, Len(s) - 1)) ELSE s

Strip(s) == StripRight(StripLeft(s))

\* str.replace(old, ''): every occurrence of old is removed, left to right
RECURSIVE Remove(_, _)
Remove(s, old) ==
    IF Len(s) < Len(old) THEN s
    ELSE IF SubSeq(s, 1, Len(old)) = old
    THEN Remove(SubSeq(s, Len(old) + 1, Len(s)), old)
    ELSE <<Head(s)>> \o Remove(Tail(s), old)

\* "https://", with the scheme written as one letter like "http://" above
HttpsPrefix == <<"s", ":", "/", "/">>

\* domain.lower().strip().replace('http://', '').replace('https://', '')
Normalize(arg) == Remove(Remove(Strip(Lower(arg)), HttpPrefix), HttpsPrefix)

\* The domain arguments given on the command line
DomainArgs ==
    { ex_com, notex_com, <<"E", "x", ".", "C">>, HttpPrefix \o ex_com }

\* The rows the archive returns to a scan: URLs of the domain with and without
\* a query string, of a subdomain and of another domain, and a malformed row
ScanUrlSamples ==
    { HttpPrefix \o ex_com \o <<"/", "a", "?", "x", "=", "1">>,
      HttpPrefix \o <<"n", ".">> \o ex_com \o <<"/", "?", "y", "=", "2">>,
      HttpPrefix \o notex_com \o <<"/", "c", "?", "z", "=", "3">>,
      HttpPrefix \o ex_com \o <<"/">> }

ScanRowSamples == {<<Str(u)>> : u \in ScanUrlSamples} \cup {<<NonStr>>}

RowListsUpTo(n) == UNION {[1..k -> ScanRowSamples] : k \in 0..n}

\* The responses of the archive to a scan
ScanResponses ==
    {resp \in Responses : resp.kind /= "ok"}
    \cup {[kind |-> "ok", data |-> <<>>]}
    \cup {[kind |-> "ok", data |-> <<HeaderRow>> \o rows] :
             rows \in RowListsUpTo(ScanMaxRows)}

\* The pieces of s between the separators sep
RECURSIVE SplitOn(_, _)
SplitOn(s, sep) ==
    LET i == FindFirst(s, 1, {sep})
    IN IF i > Len(s) THEN <<s>>
       ELSE <<SubSeq(s, 1, i - 1)>> \o SplitOn(SubSeq(s, i + 1, Len(s)), sep)

\* The query component of a URL: what follows the first "?", up to a "#"
QueryOf(url) ==
    LET q == FindFirst(url, 1, {"?"})
    IN IF q > Len(url) THEN <<>>
       ELSE SubSeq(url, q + 1, FindFirst(url, q + 1, {"#"}) - 1)

\* extract_params_from_url(url): the distinct keys of the key=value pairs of
\* the query; a URL without a query gives the empty set
extract_params_from_url(url) ==
    LET pairs == SplitOn(QueryOf(url), "&")
        key(pair) == SubSeq(pair, 1, FindFirst(pair, 1, {"="}) - 1)
    IN {key(pairs[i]) : i \in 1..Len(pairs)} \ {<<>>}

\* A list without the later occurrences of its elements
RECURSIVE Dedup(_, _)
Dedup(l, seen) ==
    IF l = <<>> THEN <<>>
    ELSE IF Head(l) \in seen THEN Dedup(Tail(l), seen)
    ELSE <<Head(l)>> \o Dedup(Tail(l), seen \cup {Head(l)})

\* The two lists joined, every occurrence kept
MergeKeepsAll(extracted, builtin) == builtin \o extracted

\* merge_and_filter_all_params(extracted, builtin): the union, each name
\* once, the builtin names first and then the new names as first seen
merge_and_filter_all_params(extracted, builtin) == Dedup(builtin \o extracted, {})

\* The builtin wordlist file: a JSON array of names, absent, no JSON, or not
\* readable
BuiltinFiles ==
    { [kind |-> "ok", list |-> <<>>], [kind |-> "ok", list |-> <<NameX>>],
      [kind |-> "missing", list |-> <<>>], [kind |-> "malformed", list |-> <<>>],
      [kind |-> "unreadable", list |-> <<>>] }

\* What open(DATA_PATH) and json.load raise on the file
LoadFailure(file) ==
    CASE file.kind = "missing" -> "FileNotFoundError"
      [] file.kind = "malformed" -> "JSONDecodeError"
      [] file.kind = "unreadable" -> "PermissionError"
      [] OTHER -> "none"

\* A loader that expects the file to hold JSON whenever it is there
LoaderCatchesMissingOnly == {"FileNotFoundError"}

\* The except clauses of _load_builtin_params
LoaderCatches == {"FileNotFoundError", "JSONDecodeError"}

\* _load_builtin_params(): the list of the file, [] when the file is absent
\* or cannot be decoded; any other exception leaves the function
LoadBuiltinParams(file) ==
    IF LoadFailure(file) = "none" THEN [raised |-> "none", list |-> file.list]
    ELSE IF LoadFailure(file) \in LoaderCatches THEN [raised |-> "none", list |-> <<>>]
    ELSE [raised |-> LoadFailure(file), list |-> <<>>]

\* "if cached_params:" is true of a list that is not empty
Truthy(optional) == optional.some /\ optional.val /= <<>>

\* A scan that goes on with an empty set of URLs
HasNoUrlsNever(urls) == FALSE

\* "if not urls:"
HasNoUrls(urls) == urls = {}

\* The exit status of typer.Exit(code=1)
EXIT_NO_DATA == 1

IdleCli ==
    [pc |-> "idle", cmd |-> "none", arg |-> <<>>, domain |-> <<>>,
     cached |-> None, fetched |-> FALSE, zero_rows |-> FALSE, urls |-> {},
     extracted |-> <<>>, builtin |-> "none", wrote |-> FALSE, stored_at |-> 0,
     final |-> <<>>, out |-> "none", exit |-> 0, raised |-> "none",
     caught |-> FALSE]

CliUnchanged == UNCHANGED <<last, written, fetch, retry, conc, merge>>

\* The decorators of the commands: scan, cache status and cache clear are
\* registered with app.command and cache_app.command and with nothing else
Decorators ==
    [c \in {"scan", "cache status", "cache clear"} |-> {"command"}]

\* handle_exceptions: an Exception raised by the wrapped function is caught,
\* "FATAL ERROR" and the details are printed, and SystemExit(1) is raised
handle_exceptions(c, kind) ==
    [c EXCEPT !.pc = "exited", !.out = "fatal_error", !.exit = 1,
              !.raised = kind, !.caught = TRUE]

\* An exception that leaves a command: under handle_exceptions it is caught,
\* otherwise it leaves the function and the interpreter ends with the
\* traceback and status 1
Raise(c, kind) ==
    IF "handle_exceptions" \in Decorators[c.cmd]
    THEN handle_exceptions(c, kind)
    ELSE [c EXCEPT !.pc = "exited", !.out = "traceback", !.exit = 1,
                   !.raised = kind, !.caught = FALSE]

\* The failures of the storage: sqlite3 raises OperationalError when the
\* database is locked, read-only or the disk fails
StorageFailures == {"OperationalError"}

\* scan <arg>: the argument is normalised
ScanStart(arg) ==
    /\ cli.pc \in {"idle", "exited"}
    /\ cli' = [IdleCli EXCEPT !.pc = "cache", !.cmd = "scan", !.arg = arg,
                              !.domain = Normalize(arg)]
    /\ UNCHANGED <<store, now>>
    /\ CliUnchanged

\* 1. cached_params = param_cache.get(domain); a list that is not empty is
\* the final list
ScanCheckCache ==
    /\ cli.pc = "cache"
    /\ LET cached == GetValue(store, cli.domain, now)
       IN cli' = [cli EXCEPT !.cached = cached,
                             !.final = IF Truthy(cached) THEN cached.val ELSE <<>>,
                             !.pc = IF Truthy(cached) THEN "report" ELSE "fetch"]
    /\ store' = GetRows(store, cli.domain, now)
    /\ UNCHANGED now
    /\ CliUnchanged

\* A scan that stores the empty list when it found no URL
RowsWithEmptyList(rows, domain, t) == SetRows(rows, domain, <<>>, t)

\* The table after "No URLs found": typer.Exit is raised before any call of
\* the cache
RowsAfterNoData(rows, domain, t) == rows

\* 2. urls = asyncio.run(fetch_wayback_urls(domain)); an empty set ends the
\* command with "No URLs found" and typer.Exit(code=1)
ScanFetchCli(resp) ==
    /\ cli.pc = "fetch"
    /\ LET urls == FetchResult(cli.domain, resp).urls
           fetched == [cli EXCEPT !.fetched = TRUE, !.urls = urls,
                                  !.zero_rows = (resp.kind = "ok" /\ Len(resp.data) <= 1)]
       IN cli' = IF HasNoUrls(urls)
                 THEN [fetched EXCEPT !.pc = "exited", !.out = "no_urls",
                                      !.exit = EXIT_NO_DATA]
                 ELSE [fetched EXCEPT !.pc = "merge"]
    /\ store' = IF HasNoUrls(FetchResult(cli.domain, resp).urls)
                THEN RowsAfterNoData(store, cli.domain, now)
                ELSE store
    /\ UNCHANGED <<now, last, written, retry, conc, merge>>

ScanFetch(resp) ==
    /\ ScanFetchCli(resp)
    /\ UNCHANGED fetch

\* The same step, with the call of fetch_wayback_urls and the response it
\* received kept in fetch
ScanFetchTraced(resp) ==
    /\ ScanFetchCli(resp)
    /\ LET r == FetchResult(cli.domain, resp)
       IN fetch' = [pc |-> "done", domain |-> cli.domain, response |-> resp,
                    urls |-> r.urls, failed |-> r.failed, raised |-> r.raised]

\* A scan that stores the names it extracted
StoredExtracted(extracted, final_params) == extracted

\* param_cache.set(domain, final_params)
StoredParams(extracted, final_params) == final_params

\* 3. to 5.: the names of every URL are collected in a set, list(extracted_set)
\* (in the order the set happens to have) is merged with the builtin list and
\* the result is stored; the URLs are not used after the names are extracted
ScanMergeStore(file) ==
    /\ cli.pc = "merge"
    /\ LET extracted_set == UNION {extract_params_from_url(u) : u \in cli.urls}
           builtin_params == LoadBuiltinParams(file)
       IN \E extracted \in Orderings(extracted_set) :
            IF builtin_params.raised /= "none"
            THEN /\ cli' = Raise([cli EXCEPT !.extracted = extracted,
                                             !.builtin = file.kind, !.urls = {}],
                                 builtin_params.raised)
                 /\ UNCHANGED store
            ELSE LET final == merge_and_filter_all_params(extracted, builtin_params.list)
                 IN /\ cli' = [cli EXCEPT !.extracted = extracted, !.final = final,
                                           !.builtin = file.kind, !.wrote = TRUE,
                                           !.stored_at = now, !.urls = {},
                                           !.pc = "report"]
                    /\ store' = SetRows(store, cli.domain,
                                        StoredParams(extracted, final), now)
    /\ UNCHANGED now
    /\ CliUnchanged

\* 6. the final list is printed, or "No high-signal parameters found"
ScanReport ==
    /\ cli.pc = "report"
    /\ cli' = [cli EXCEPT !.pc = "exited",
                          !.out = IF cli.final = <<>> THEN "no_params" ELSE "list",
                          !.exit = 0]
    /\ UNCHANGED <<store, now>>
    /\ CliUnchanged

\* cache clear <arg>: param_cache.delete(arg), the argument as given
CacheClear(arg) ==
    /\ cli.pc \in {"idle", "exited"}
    /\ store' = DeleteWhere(store, arg)
    /\ cli' = [IdleCli EXCEPT !.pc = "exited", !.cmd = "cache clear", !.arg = arg,
                              !.out = "cleared"]
    /\ UNCHANGED now
    /\ CliUnchanged

\* cache clear: param_cache.clear_all()
CacheClearAll ==
    /\ cli.pc \in {"idle", "exited"}
    /\ store' = ClearAllRows(store, now)
    /\ cli' = [IdleCli EXCEPT !.pc = "exited", !.cmd = "cache clear",
                              !.out = "cleared_all"]
    /\ UNCHANGED now
    /\ CliUnchanged

\* cache status: param_cache.get_status()
CacheStatus ==
    /\ cli.pc \in {"idle", "exited"}
    /\ cli' = [IdleCli EXCEPT !.pc = "exited", !.cmd = "cache status",
                              !.out = IF store = {} THEN "cache_empty" ELSE "status"]
    /\ UNCHANGED <<store, now>>
    /\ CliUnchanged

\* param_cache.get or param_cache.set of a scan raises
ScanStorageFails(kind) ==
    /\ cli.pc \in {"cache", "merge"}
    /\ cli' = Raise(cli, kind)
    /\ UNCHANGED <<store, now>>
    /\ CliUnchanged

\* param_cache.get_status, delete or clear_all of a cache command raises
CacheCommandFails(cmd, kind) ==
    /\ cli.pc \in {"idle", "exited"}
    /\ cli' = Raise([IdleCli EXCEPT !.cmd = cmd], kind)
    /\ UNCHANGED <<store, now>>
    /\ CliUnchanged

\* The commands are followed until the first entries have expired
CliMaxNow == CACHE_TTL * Resolution + 1

CliTick ==
    /\ now < CliMaxNow
    /\ now' = now + 1
    /\ UNCHANGED <<store, cli>>
    /\ CliUnchanged

InitCli ==
    /\ store = {}
    /\ now = 0
    /\ last = NoCall
    /\ written = [e \in Domains |-> NoWrite]
    /\ fetch = Idle
    /\ retry = Idle
    /\ conc = Idle
    /\ cli = IdleCli
    /\ merge = Idle

CliNext ==
    \/ CliTick
    \/ \E arg \in DomainArgs : ScanStart(arg)
    \/ ScanCheckCache
    \/ \E resp \in ScanResponses : ScanFetch(resp)
    \/ \E file \in BuiltinFiles : ScanMergeStore(file)
    \/ ScanReport
    \/ \E arg \in DomainArgs : CacheClear(arg)
    \/ CacheClearAll
    \/ CacheStatus
    \/ \E kind \in StorageFailures : ScanStorageFails(kind)
    \/ \E cmd \in {"cache status", "cache clear"}, kind \in StorageFailures :
           CacheCommandFails(cmd, kind)

SpecCli == InitCli /\ [][CliNext]_vars

\* C5: when the archive returns no data row (an empty response, or the header
\* row alone) to a scan that found no usable cache entry, the scan has an
\* empty set of URLs, reports that no data was found and ends with a non-zero
\* exit status.
C5_ZeroRowsExitNonZero ==
    (cli.cmd = "scan" /\ cli.fetched /\ cli.zero_rows) =>
        /\ cli.pc = "exited"
        /\ cli.urls = {}
        /\ cli.out = "no_urls"
        /\ cli.exit /= 0
        /\ ~cli.wrote

\* C13: a failure raised while a command runs, a failure of the cache storage
\* included, is caught at the command's boundary, reported with its kind
\* and message, and ends the process with a non-zero status; it never leaves
\* the command uncaught.
C13_FailuresCaughtAtBoundary ==
    cli.raised /= "none" =>
        /\ cli.caught
        /\ cli.out = "fatal_error"
        /\ cli.exit /= 0

\* C14: when the builtin wordlist is absent or holds no valid JSON, the scan
\* goes on with the empty wordlist: a scan that fetched URLs merges the
\* extracted names with the empty list, stores the result and reports it.
C14_BadWordlistIsEmpty ==
    (cli.cmd = "scan" /\ cli.builtin \in {"missing", "malformed"}) =>
        /\ cli.fetched
        /\ cli.raised = "none"
        /\ cli.pc \in {"report", "exited"}
        /\ cli.final = merge_and_filter_all_params(cli.extracted, <<>>)
        /\ cli.wrote
        /\ \E r \in RowsOf(store, cli.domain) : json_loads(r.params_json) = cli.final
        /\ cli.pc = "exited" =>
              /\ cli.exit = 0
              /\ cli.out = IF cli.final = <<>> THEN "no_params" ELSE "list"

\* A scan has reported the names it extracted although the wordlist holds no
\* valid JSON
C14_Witness ==
    /\ cli.cmd = "scan"
    /\ cli.builtin = "malformed"
    /\ cli.pc = "exited"
    /\ cli.out = "list"
    /\ cli.final /= <<>>

\* C15: the archive is asked only when get returned no entry: whenever the
\* cache holds an unexpired entry of the domain, whatever its list (the empty
\* list included), the scan reports the stored list, fetches nothing and
\* writes nothing to the cache.
C15_UnexpiredEntryMeansNoFetch ==
    (cli.cmd = "scan" /\ cli.cached.some) =>
        /\ cli.pc \in {"report", "exited"}
        /\ cli.final = cli.cached.val
        /\ ~cli.fetched
        /\ ~cli.wrote

\* C16 as stated: after a scan that fetched URLs and was not aborted, the
\* entry of the normalized domain holds the list the scan reports, written
\* before the report, and a get of the domain at any time less than the TTL
\* after the scan returns that list in that order.
C16_GetWithinTTLOfScan ==
    (cli.cmd = "scan" /\ cli.wrote) =>
        /\ cli.pc \in {"report", "exited"}
        /\ \E r \in store : /\ RowsOf(store, cli.domain) = {r}
                             /\ json_loads(r.params_json) = cli.final
        /\ now - cli.stored_at < CACHE_TTL * Resolution =>
              GetValue(store, cli.domain, now) = Some(cli.final)

\* C16, amended: the same, for a get at any time up to the TTL less one second
\* after the scan (the timestamp of the entry is the second in which the
\* scan wrote it).
C16_GetWithinTTLOfTimestamp ==
    (cli.cmd = "scan" /\ cli.wrote) =>
        /\ cli.pc \in {"report", "exited"}
        /\ cli.domain = Normalize(cli.arg)
        /\ \E r \in store : /\ RowsOf(store, cli.domain) = {r}
                             /\ json_loads(r.params_json) = cli.final
                             /\ r.timestamp * Resolution <= cli.stored_at
                             /\ cli.stored_at < (r.timestamp + 1) * Resolution
        /\ now - cli.stored_at <= (CACHE_TTL - 1) * Resolution =>
              GetValue(store, cli.domain, now) = Some(cli.final)

\* A scan has reported a list of two names a whole second or more ago and a
\* get still returns it
C16_Witness ==
    /\ cli.cmd = "scan"
    /\ cli.pc = "exited"
    /\ cli.out = "list"
    /\ Len(cli.final) = 2
    /\ now - cli.stored_at >= Resolution
    /\ GetValue(store, cli.domain, now) = Some(cli.final)

\* C17: a scan that ends with "no data found" never calls set: from the
\* scan's get to its end the table stays as the get left it, no entry is
\* made or overwritten and the entries of other domains stay as they are.
C17_NoDataScanLeavesStore ==
    [][ /\ (cli.cmd = "scan" /\ cli.pc = "fetch") => store' = store
        /\ (cli'.out = "no_urls" /\ cli.out /= "no_urls") =>
              /\ cli.cmd = "scan"
              /\ cli.pc = "fetch"
              /\ cli'.pc = "exited"
              /\ ~cli'.wrote
              /\ store' = store ]_vars

\* A scan has ended with "no data found" while the cache holds an entry
C17_Witness ==
    /\ cli.cmd = "scan"
    /\ cli.pc = "exited"
    /\ cli.out = "no_urls"
    /\ ~cli.cached.some
    /\ store /= {}

\* C19: scan X and cache clear X derive the same key from the argument X,
\* whatever its case and with or without a scheme: a cache clear X that
\* follows a scan X leaves no entry of that domain.
C19_ClearAfterScanLeavesNoEntry ==
    [][ ( /\ cli.cmd = "scan"
          /\ cli.pc = "exited"
          /\ cli'.cmd = "cache clear"
          /\ cli'.out = "cleared"
          /\ cli'.arg = cli.arg ) =>
            RowsOf(store', Normalize(cli.arg)) = {} ]_vars

\* One scan in a new cache directory
ScanOnce(arg) ==
    /\ cli.pc = "idle"
    /\ ScanStart(arg)

ScanNext ==
    \/ \E arg \in DomainArgs : ScanOnce(arg)
    \/ ScanCheckCache
    \/ \E resp \in ScanResponses : ScanFetchTraced(resp)
    \/ \E file \in BuiltinFiles : ScanMergeStore(file)
    \/ ScanReport

SpecScan == InitCli /\ [][ScanNext]_vars

\* The elements of a list
Elements(l) == {l[i] : i \in 1..Len(l)}

(***************************************************************************)
(* merge_and_filter_all_params on its own: the lists it is given are drawn *)
(* from the lists over three names, up to MaxListLen long, duplicates      *)
(* included.                                                               *)
(***************************************************************************)
MaxListLen == 3

NameA == <<"a">>
NameB == <<"b">>
NameC == <<"c">>

MergeNames == {NameA, NameB, NameC}

MergeLists == UNION {[1..n -> MergeNames] : n \in 0..MaxListLen}

\* The call merge_and_filter_all_params(extracted, builtin), and beside it the
\* calls with the same extracted list and the builtin list replaced by the
\* empty list and by the extracted list
Merge(extracted, builtin) ==
    /\ merge.pc = "idle"
    /\ merge' = [pc |-> "done", extracted |-> extracted, builtin |-> builtin,
                 result |-> merge_and_filter_all_params(extracted, builtin),
                 with_empty |-> merge_and_filter_all_params(extracted, <<>>),
                 with_self |-> merge_and_filter_all_params(extracted, extracted)]
    /\ UNCHANGED <<store, now, last, written, fetch, retry, conc, cli>>

MergeNext == \E extracted \in MergeLists, builtin \in MergeLists : Merge(extracted, builtin)

SpecMerge == Init /\ [][MergeNext]_vars

\* How often a name occurs in a list
Occurrences(l, name) == Cardinality({i \in 1..Len(l) : l[i] = name})

\* C12: the merged list holds every name of the union of the two lists once,
\* and no other name; merging with the empty list gives the same list as
\* merging the extracted list with itself.
C12_MergeIsUnionOnce ==
    merge.pc = "done" =>
        /\ Elements(merge.result) = Elements(merge.extracted) \cup Elements(merge.builtin)
        /\ \A name \in Elements(merge.result) : Occurrences(merge.result, name) = 1
        /\ merge.with_empty = merge.with_self

\* merge(["a", "b", "a"], ["b", "c"]) has returned
C12_Witness ==
    /\ merge.pc = "done"
    /\ merge.extracted = <<NameA, NameB, NameA>>
    /\ merge.builtin = <<NameB, NameC>>
    /\ Elements(merge.result) = {NameA, NameB, NameC}
    /\ Len(merge.result) = 3

\* The host is the domain or a subdomain of it
HostContained(host, domain) ==
    host = domain \/ EndsWith(host, <<".">> \o domain)

\* C11: in a fresh scan the set of names handed to the merge is exactly the
\* union of extract(u) over the data rows (the header row left out) whose
\* host is the domain or a subdomain of it.
C11_ExtractedFromContainedRows ==
    (cli.cmd = "scan" /\ cli.wrote) =>
        LET rows == Tail(fetch.response.data)
            contained == {i \in 1..Len(rows) :
                            /\ rows[i] /= <<>>
                            /\ rows[i][1].str
                            /\ HostContained(Hostname(rows[i][1].text), cli.domain)}
        IN Elements(cli.extracted)
              = UNION {extract_params_from_url(rows[i][1].text) : i \in contained}

\* A scan of a domain without an entry, while the cache holds the entry of
\* another domain, was answered with zero data rows and ended with exit
\* status 1.
C5_Witness ==
    /\ cli.cmd = "scan" /\ cli.fetched /\ cli.zero_rows
    /\ cli.pc = "exited" /\ cli.exit = 1 /\ cli.out = "no_urls"
    /\ RowsOf(store, cli.domain) = {}
    /\ store /= {}

(***************************************************************************)
(* The claims about the cache, under Spec.                                 *)
(***************************************************************************)
\* A step of Spec that is a call of method op
Called(op) == last'.seq /= last.seq /\ last'.op = op

\* C2: get(domain) returns the stored list if and only if the domain has an
\* entry and now - timestamp < TTL; otherwise it returns absent, and an entry
\* that exists but is stale is deleted by that get.  An entry written at time
\* T is returned at T + TTL - 1s and is absent and deleted at T + TTL + 1s.
C2_GetReturnsIffFresh ==
    [][Called("get") =>
        LET d == last'.domain
            rows == RowsOf(store, d)
            fresh == {r \in rows :
                         now - r.timestamp * Resolution < CACHE_TTL * Resolution}
        IN /\ last'.result.some <=> fresh /= {}
           /\ last'.result.some => last'.result.val = written[d].params
           /\ (rows /= {} /\ fresh = {}) => RowsOf(store', d) = {}
           /\ (rows = {} \/ fresh /= {}) => store' = store
           /\ {r \in store' : r.domain /= d} = {r \in store : r.domain /= d}
           /\ (written[d].some /\ now = written[d].at + (CACHE_TTL - 1) * Resolution)
                 => last'.result = Some(written[d].params)
           /\ (written[d].some /\ now = written[d].at + (CACHE_TTL + 1) * Resolution)
                 => (last'.result = None /\ RowsOf(store', d) = {})
      ]_vars

\* A get found the entry of its domain stale, returned absent and deleted it,
\* while the other domain keeps its entry.
C2_Witness ==
    /\ last.op = "get" /\ last.had /\ ~last.result.some
    /\ RowsOf(store, last.domain) = {}
    /\ store /= {}

\* C3: the store holds at most one entry per domain, and right after
\* set(d, L) the one entry of d holds exactly L, with the time of that set
\* (in whole seconds) as its timestamp, whatever entry d had before.
C3_SetUpserts ==
    [][/\ \A d \in Domains : Cardinality(RowsOf(store', d)) <= 1
       /\ Called("set") =>
            \E r \in store' :
               /\ RowsOf(store', last'.domain) = {r}
               /\ json_loads(r.params_json) = last'.params
               /\ r.timestamp * Resolution <= now
               /\ now < (r.timestamp + 1) * Resolution
      ]_vars

\* A set replaced the entry its domain already had, a second or more later.
C3_Witness ==
    /\ last.op = "set" /\ last.had
    /\ last.params = <<NameBackslash, NameQuote>>
    /\ \E r \in store : r.domain = last.domain /\ r.timestamp >= 1

\* C9: clear_all() on a store of n entries, expired or not, returns n and
\* leaves the store empty: get_status() returns the empty list and get
\* returns absent for every domain.
C9_ClearAllEmpties ==
    [][Called("clear_all") =>
        /\ last'.count = Cardinality(store)
        /\ store' = {}
        /\ StatusLists(store', now') = {<<>>}
        /\ \A d \in Domains : GetValue(store', d, now') = None
      ]_vars

\* clear_all removed two entries, one of them past its time to live.
C9_Witness ==
    /\ last.op = "clear_all" /\ last.count = 2
    /\ store = {}
    /\ now >= CACHE_TTL * Resolution

\* C10: delete(d) removes the entry of d if there is one, raises nothing if
\* there is none, and leaves the entry of every other domain as it was.
C10_DeleteFrame ==
    [][Called("delete") =>
        /\ RowsOf(store', last'.domain) = {}
        /\ {r \in store' : r.domain /= last'.domain}
              = {r \in store : r.domain /= last'.domain}
        /\ ~last'.raised
      ]_vars

\* delete removed the entry of its domain and the other domain kept its own.
C10_Witness ==
    /\ last.op = "delete" /\ last.had
    /\ RowsOf(store, last.domain) = {}
    /\ store /= {}

\* C20: get_status leaves the table as it is and lists every entry, those
\* past the TTL included; it gives expires_in = "Expired" for exactly the
\* entries a get at the same instant would treat as absent.
C20_StatusReadsAndAgreesWithGet ==
    [][ Called("get_status") =>
          /\ store' = store
          /\ Len(last'.status) = Cardinality(store)
          /\ {last'.status[i].domain : i \in 1..Len(last'.status)}
                = {r.domain : r \in store}
          /\ \A i \in 1..Len(last'.status) :
                last'.status[i].expires_in.expired
                  <=> GetValue(store, last'.status[i].domain, now) = None ]_vars

\* get_status has listed two entries, one of them at the instant it expires
C20_Witness ==
    /\ last.op = "get_status"
    /\ Len(last.status) = 2
    /\ \E i, j \in 1..2 :
          /\ last.status[i].expires_in.expired
          /\ now = (last.status[i].cached_since + CACHE_TTL) * Resolution
          /\ ~last.status[j].expires_in.expired

\* C18: get deletes only stale entries: however a get of a domain by one
\* caller and a set of the same domain by another are interleaved, the delete
\* of the get removes no entry whose age is below the TTL.
C18_GetDeletesOnlyStale ==
    [][ \A c \in Callers :
          ( /\ conc.callers[c].pc = "commit"
            /\ conc.callers[c].op = "get"
            /\ conc'.callers[c].pc = "idle" ) =>
              \A r \in store \ store' : ~Fresh(r.timestamp, now) ]_vars
====
